---- MODULE Spec2Model ----
(***************************************************************************)
(* Model of the markup-to-layout pipeline of src/app.py:                   *)
(*   process_inline_formatting (lines 138-158) and                         *)
(*   create_pdf_reportlab      (lines 208-327).                            *)
(*                                                                         *)
(* A text is a sequence of one-character strings.  The tags that the three *)
(* re.sub calls insert ("<b>", "</b>", "<i>", "</i>", "<a href=\"",        *)
(* "\" color=\"blue\">", "</a>") are kept as single elements of the        *)
(* sequence: none of them holds a character any of the regular expressions *)
(* of the program looks for, none starts or ends with whitespace, and none *)
(* starts with an alphanumeric or '-'.                                     *)
(***************************************************************************)
EXTENDS Naturals, Sequences, FiniteSets

VARIABLES
    content,                   \* create_pdf_reportlab: the content argument
    font_exists,               \* os.path.exists(font_path)
    heading_to_content_space,  \* create_pdf_reportlab: the spacing argument
    pc,                        \* where create_pdf_reportlab stands
    parts,                     \* the result of re.split
    i,                         \* the loop index (Python's, from 0)
    elements,                  \* the flowables appended so far
    pdf_data,                  \* <<>> until doc.build has run, then <<elements>>
    given,                     \* process_inline_formatting: text as passed in
    text,                      \* process_inline_formatting: text as rewritten
    ipc                        \* where process_inline_formatting stands

vars == <<content, font_exists, heading_to_content_space,
          pc, parts, i, elements, pdf_data, given, text, ipc>>

pdfvars == <<content, font_exists, heading_to_content_space,
             pc, parts, i, elements, pdf_data>>

inlinevars == <<given, text, ipc>>

----------------------------------------------------------------------------
(* Characters and character classes                                        *)

NL == "\n"

\* \s of Python's re and the characters str.strip() removes
Whitespace == {" ", NL}

\* [\dA-Za-z]
Alnum == {"a", "b", "c", "h", "p", "s", "t", "x", "1", "2"}

BOpen == "<b>"
BClose == "</b>"
IOpen == "<i>"
IClose == "</i>"
AOpen == "<a href=\""
AMid == "\" color=\"blue\">"
AClose == "</a>"

Min(S) == CHOOSE m \in S : \A n \in S : m <= n
Max(S) == CHOOSE m \in S : \A n \in S : m >= n

\* s[a..b], empty when b < a
Sub(s, a, b) == IF b < a THEN <<>> ELSE SubSeq(s, a, b)

\* "lit" occurs in s at position p
At(s, p, lit) ==
    /\ p >= 1
    /\ p + Len(lit) - 1 <= Len(s)
    /\ \A k \in 1..Len(lit) : s[p + k - 1] = lit[k]

\* str.strip()
Strip(s) ==
    LET keep == {k \in 1..Len(s) : s[k] \notin Whitespace}
    IN  IF keep = {} THEN <<>> ELSE SubSeq(s, Min(keep), Max(keep))

\* str.lstrip("#")
LStripHash(s) ==
    LET keep == {k \in 1..Len(s) : s[k] # "#"}
    IN  IF keep = {} THEN <<>> ELSE SubSeq(s, Min(keep), Len(s))

\* str.splitlines() for texts whose only line break is "\n"
RECURSIVE SplitLines(_)
SplitLines(s) ==
    IF s = <<>> THEN <<>>
    ELSE LET nls == {k \in 1..Len(s) : s[k] = NL}
         IN  IF nls = {} THEN <<s>>
             ELSE <<Sub(s, 1, Min(nls) - 1)>> \o SplitLines(Sub(s, Min(nls) + 1, Len(s)))

----------------------------------------------------------------------------
(* process_inline_formatting                                               *)

\* end of the match of \*(.+?)\* that starts at p, 0 when there is none
ItalicMatchEnd(s, p) ==
    IF ~At(s, p, <<"*">>) THEN 0
    ELSE LET qs == {q \in (p + 2)..Len(s) :
                      /\ s[q] = "*"
                      /\ \A j \in (p + 1)..(q - 1) : s[j] # NL}
         IN  IF qs = {} THEN 0 ELSE Min(qs)

RECURSIVE SubItalicFrom(_, _)
SubItalicFrom(s, p) ==
    IF p > Len(s) THEN <<>>
    ELSE LET e == ItalicMatchEnd(s, p)
         IN  IF e > 0
             THEN <<IOpen>> \o Sub(s, p + 1, e - 1) \o <<IClose>> \o SubItalicFrom(s, e + 1)
             ELSE <<s[p]>> \o SubItalicFrom(s, p + 1)

\* re.sub(r"\*(.+?)\*", r"<i>\1</i>", text)
ConvertItalic(s) == SubItalicFrom(s, 1)

\* end of the match of \*\*(.+?)\*\* that starts at p, 0 when there is none:
\* the lazy group takes the fewest characters (at least one, none a line
\* break) after which "**" follows
BoldMatchEnd(s, p) ==
    IF ~At(s, p, <<"*", "*">>) THEN 0
    ELSE LET qs == {q \in (p + 3)..Len(s) :
                      /\ At(s, q, <<"*", "*">>)
                      /\ \A j \in (p + 2)..(q - 1) : s[j] # NL}
         IN  IF qs = {} THEN 0 ELSE Min(qs) + 1

RECURSIVE SubBoldFrom(_, _)
SubBoldFrom(s, p) ==
    IF p > Len(s) THEN <<>>
    ELSE LET e == BoldMatchEnd(s, p)
         IN  IF e > 0
             THEN <<BOpen>> \o Sub(s, p + 2, e - 2) \o <<BClose>> \o SubBoldFrom(s, e + 1)
             ELSE <<s[p]>> \o SubBoldFrom(s, p + 1)

\* the two substitutions in the wrong order: italic first, then bold
ConvertBoldAfterItalic(s) == SubBoldFrom(ConvertItalic(s), 1)

\* re.sub(r"\*\*(.+?)\*\*", r"<b>\1</b>", text)
ConvertBold(s) == SubBoldFrom(s, 1)

\* the scheme left out of the pattern: any URL is taken
SchemeEndUnchecked(s, u) == u

\* https?:// at position u: the position after it, 0 when it is not there
SchemeEnd(s, u) ==
    IF At(s, u, <<"h", "t", "t", "p", "s", ":", "/", "/">>) THEN u + 8
    ELSE IF At(s, u, <<"h", "t", "t", "p", ":", "/", "/">>) THEN u + 7
    ELSE 0

\* [^\)]+ from position v, greedy: the last position of the run, 0 when empty
UrlRunEnd(s, v) ==
    LET stops == {k \in v..Len(s) : s[k] = ")"}
        last == IF stops = {} THEN Len(s) ELSE Min(stops) - 1
    IN  IF v > Len(s) \/ last < v THEN 0 ELSE last

\* the match of \[(.+?)\]\((https?://[^\)]+)\) that starts at p, as
\* <<last position of group 1, first position of group 2, end of the match>>,
\* <<>> when there is none.  r is the last position of the lazy group 1.
LinkMatch(s, p) ==
    IF ~At(s, p, <<"[">>) THEN <<>>
    ELSE LET ok(r) ==
                 /\ \A j \in (p + 1)..r : s[j] # NL
                 /\ At(s, r + 1, <<"]", "(">>)
                 /\ SchemeEnd(s, r + 3) > 0
                 /\ UrlRunEnd(s, SchemeEnd(s, r + 3)) > 0
                 /\ At(s, UrlRunEnd(s, SchemeEnd(s, r + 3)) + 1, <<")">>)
             rs == {r \in (p + 1)..Len(s) : ok(r)}
         IN  IF rs = {} THEN <<>>
             ELSE LET r == Min(rs)
                  IN  <<r, r + 3, UrlRunEnd(s, SchemeEnd(s, r + 3)) + 1>>

RECURSIVE SubLinkFrom(_, _)
SubLinkFrom(s, p) ==
    IF p > Len(s) THEN <<>>
    ELSE LET m == LinkMatch(s, p)
         IN  IF m # <<>>
             THEN <<AOpen>> \o Sub(s, m[2], m[3] - 1) \o <<AMid>>
                  \o Sub(s, p + 1, m[1]) \o <<AClose>> \o SubLinkFrom(s, m[3] + 1)
             ELSE <<s[p]>> \o SubLinkFrom(s, p + 1)

\* re.sub(r"\[(.+?)\]\((https?://[^\)]+)\)", r'<a href="\2" color="blue">\1</a>', text)
ConvertLink(s) == SubLinkFrom(s, 1)

process_inline_formatting(s) == ConvertLink(ConvertItalic(ConvertBold(s)))

----------------------------------------------------------------------------
(* create_pdf_reportlab: the flowables                                     *)

\* Paragraph(text, style)
Paragraph(t, style) ==
    [kind |-> "Paragraph", text |-> t, style |-> style, items |-> <<>>, height |-> 0]

\* Spacer(1, height)
Spacer(h) ==
    [kind |-> "Spacer", text |-> <<>>, style |-> "", items |-> <<>>, height |-> h]

\* ListFlowable(bullet_items, bulletType='bullet', leftIndent=20)
ListFlowable(items) ==
    [kind |-> "ListFlowable", text |-> <<>>, style |-> "", items |-> items, height |-> 0]

\* the gap appended after every section, Spacer(1, 12)
SectionGap == 12

----------------------------------------------------------------------------
(* create_pdf_reportlab: splitting into sections                           *)

\* last position of the line that holds position p
LineEnd(s, p) ==
    LET nls == {k \in p..Len(s) : s[k] = NL}
    IN  IF nls = {} THEN Len(s) ELSE Min(nls) - 1

\* the pattern without its ^ anchor: "##" is taken anywhere in a line
HeadingMatchEndUnanchored(s, p) ==
    IF ~At(s, p, <<"#", "#">>)
    THEN 0
    ELSE LET run == {k \in 0..(Len(s) - p - 1) :
                       \A j \in (p + 2)..(p + 1 + k) : s[j] \in Whitespace}
             ks == {k \in run : p + 2 + k <= Len(s) /\ s[p + 2 + k] # NL}
         IN  IF ks = {} THEN 0 ELSE LineEnd(s, p + 2 + Max(ks))

\* end of the match of ^##\s*.+$ (re.MULTILINE) that starts at p, 0 when there
\* is none.  \s* is greedy and also takes line breaks; it gives characters back
\* until the next character is one that . matches (anything but a line break);
\* .+ then runs to the end of that line, where $ matches.
HeadingMatchEnd(s, p) ==
    IF ~(/\ (p = 1 \/ s[p - 1] = NL)
         /\ At(s, p, <<"#", "#">>))
    THEN 0
    ELSE LET run == {k \in 0..(Len(s) - p - 1) :
                       \A j \in (p + 2)..(p + 1 + k) : s[j] \in Whitespace}
             ks == {k \in run : p + 2 + k <= Len(s) /\ s[p + 2 + k] # NL}
         IN  IF ks = {} THEN 0 ELSE LineEnd(s, p + 2 + Max(ks))

\* re.split with one capturing group: the text before each match, the match,
\* ..., the text after the last match
RECURSIVE SplitFrom(_, _, _)
SplitFrom(s, p, start) ==
    IF p > Len(s) THEN <<Sub(s, start, Len(s))>>
    ELSE LET e == HeadingMatchEnd(s, p)
         IN  IF e > 0
             THEN <<Sub(s, start, p - 1), Sub(s, p, e)>> \o SplitFrom(s, e + 1, e + 1)
             ELSE SplitFrom(s, p + 1, start)

\* re.split(r'(^##\s*.+$)', content, flags=re.MULTILINE)
SplitSections(s) == SplitFrom(s, 1, 1)

----------------------------------------------------------------------------
(* create_pdf_reportlab: one section                                       *)

\* length of the match of ^(?:[\dA-Za-z]+\.\s+|\-\s+) at the start of line,
\* 0 when there is none
MarkerLen(line) ==
    LET wsrun(from) ==
            LET stop == {k \in from..Len(line) : line[k] \notin Whitespace}
            IN  IF stop = {} THEN Len(line) ELSE Min(stop) - 1
        nonalnum == {k \in 1..Len(line) : line[k] \notin Alnum}
        dot == IF nonalnum = {} THEN 0 ELSE Min(nonalnum)
    IN  IF dot > 1 /\ line[dot] = "." /\ wsrun(dot + 1) > dot THEN wsrun(dot + 1)
        ELSE IF Len(line) >= 1 /\ line[1] = "-" /\ wsrun(2) > 1 THEN wsrun(2)
        ELSE 0

\* re.sub(r'^(?:[\dA-Za-z]+\.\s+|\-\s+)', '', line)
StripMarker(line) == Sub(line, MarkerLen(line) + 1, Len(line))

\* the marker left on the heading: only the whitespace is stripped
HeadingTextWithMarker(part) == Strip(part)

\* heading_line.lstrip("#").strip() of parts[i].strip()
HeadingText(part) == Strip(LStripHash(Strip(part)))

\* the loop that sets bullet_match: the first line with non-blank content
\* decides, and re.match is tried on that line as it stands
BulletMatch(section_content) ==
    LET lines == SplitLines(section_content)
        nonblank == {k \in 1..Len(lines) : Strip(lines[k]) # <<>>}
    IN  nonblank # {} /\ MarkerLen(lines[Min(nonblank)]) > 0

\* the loop that fills bullet_items
RECURSIVE BulletItems(_)
BulletItems(lines) ==
    IF lines = <<>> THEN <<>>
    ELSE LET line == Strip(lines[1])
         IN  (IF line # <<>> THEN <<Paragraph(StripMarker(line), "Bullet")>> ELSE <<>>)
             \o BulletItems(Tail(lines))

\* one pass of the loop without the closing Spacer(1, 12)
SectionElementsNoGap(heading_part, body_part, space) ==
    LET heading_text == process_inline_formatting(HeadingText(heading_part))
        section_content == process_inline_formatting(Strip(body_part))
    IN  <<Paragraph(heading_text, "Heading"), Spacer(space)>>
        \o (IF BulletMatch(section_content)
            THEN <<ListFlowable(BulletItems(SplitLines(section_content)))>>
            ELSE IF section_content # <<>>
                 THEN <<Paragraph(section_content, "Body")>>
                 ELSE <<>>)

\* what one pass of the for loop appends to elements
SectionElements(heading_part, body_part, space) ==
    LET heading_text == process_inline_formatting(HeadingText(heading_part))
        section_content == process_inline_formatting(Strip(body_part))
    IN  <<Paragraph(heading_text, "Heading"), Spacer(space)>>
        \o (IF BulletMatch(section_content)
            THEN <<ListFlowable(BulletItems(SplitLines(section_content)))>>
            ELSE IF section_content # <<>>
                 THEN <<Paragraph(section_content, "Body")>>
                 ELSE <<>>)
        \o <<Spacer(SectionGap)>>


----------------------------------------------------------------------------
(* Inputs                                                                  *)

\* longest content of each family, counted in atoms
MaxHead == 5
MaxBody == 5
MaxList == 4
MaxEmph == 7
MaxLinkText == 2
MaxUrl == 4

Seqs(S, n) == UNION {[1..k -> S] : k \in 0..n}

RECURSIVE Flatten(_)
Flatten(w) == IF w = <<>> THEN <<>> ELSE w[1] \o Flatten(Tail(w))

Texts(atoms, n) == {Flatten(w) : w \in Seqs(atoms, n)}

HeadAtoms == {<<"#", "#">>, <<"#">>, <<" ">>, <<NL>>, <<"a">>}
BodyAtoms == {<<"#", "#">>, <<"-">>, <<" ">>, <<NL>>, <<"a">>}
LinkOpen == <<"[", "a", "]", "(", "h", "t", "t", "p", ":", "/", "/", "a">>
ListAtoms == {<<"-", " ">>, <<NL>>, <<"*", "a", "*">>, LinkOpen, <<")">>}

\* a heading line with text, then a line break
OneHeading == <<"#", "#", "a", NL>>

Contents ==
    Texts(HeadAtoms, MaxHead)
    \cup {OneHeading \o b : b \in Texts(BodyAtoms, MaxBody)}
    \cup {OneHeading \o b : b \in Texts(ListAtoms, MaxList)}

\* the default of heading_to_content_space and one override
Spaces == {24, 6}

EmphAtoms == {<<"*", "*">>, <<"*">>, <<"a">>, <<NL>>}
LinkTextAtoms == {<<"a">>, <<"b">>}
UrlAtoms == {<<"h", "t", "t", "p">>, <<"s">>, <<":", "/", "/">>, <<"a">>}

\* [TEXT](URL)
LinkSyntax(t, u) == <<"[">> \o t \o <<"]", "(">> \o u \o <<")">>

LinkTexts == {LinkSyntax(t, u) : t \in Texts(LinkTextAtoms, MaxLinkText),
                                 u \in Texts(UrlAtoms, MaxUrl)}

----------------------------------------------------------------------------
(* create_pdf_reportlab, step by step                                      *)

Init ==
    /\ content \in Contents
    /\ font_exists \in BOOLEAN
    /\ heading_to_content_space \in Spaces
    /\ pc = "start"
    /\ parts = <<>>
    /\ i = 0
    /\ elements = <<>>
    /\ pdf_data = <<>>
    /\ given = <<>>
    /\ text = <<>>
    /\ ipc = "idle"

\* the check left out: the font is taken to be there
FontMissingIgnored == FALSE

\* if not os.path.exists(font_path)
FontMissing == ~font_exists

\* raise FileNotFoundError(...)
RaiseMissingFont ==
    /\ pc = "start"
    /\ FontMissing
    /\ pc' = "raised"
    /\ UNCHANGED <<content, font_exists, heading_to_content_space,
                   parts, i, elements, pdf_data, inlinevars>>

\* pdfmetrics.registerFont(...) and the style definitions
RegisterFont ==
    /\ pc = "start"
    /\ ~FontMissing
    /\ pc' = "split"
    /\ UNCHANGED <<content, font_exists, heading_to_content_space,
                   parts, i, elements, pdf_data, inlinevars>>

\* elements = []; parts = re.split(...)
SplitContent ==
    /\ pc = "split"
    /\ parts' = SplitSections(content)
    /\ i' = 1
    /\ pc' = "loop"
    /\ UNCHANGED <<content, font_exists, heading_to_content_space,
                   elements, pdf_data, inlinevars>>

\* parts[k] of the program
Part(ps, k) == ps[k + 1]

\* range(1, len(parts), 2): the first index and the step
FirstIndex == 1
IndexStep == 2

\* off by one the other way: parts[i-1] is taken as the section's content
BodyPartBefore(ps, k) == Part(ps, k - 1)

\* parts[i+1].strip() if i+1 < len(parts) else "" , before the strip
BodyPart(ps, k) == IF k + 1 < Len(ps) THEN Part(ps, k + 1) ELSE <<>>

\* one pass of: for i in range(1, len(parts), 2)
ProcessSection ==
    /\ pc = "loop"
    /\ i < Len(parts)
    /\ elements' = elements \o SectionElements(Part(parts, i), BodyPart(parts, i),
                                               heading_to_content_space)
    /\ i' = i + IndexStep
    /\ UNCHANGED <<content, font_exists, heading_to_content_space,
                   pc, parts, pdf_data, inlinevars>>

\* doc.build(elements); pdf_data = buffer.getvalue(); return pdf_data
BuildDocument ==
    /\ pc = "loop"
    /\ i >= Len(parts)
    /\ pdf_data' = <<elements>>
    /\ pc' = "done"
    /\ UNCHANGED <<content, font_exists, heading_to_content_space,
                   parts, i, elements, inlinevars>>

\* the whole loop as one value: what it appends from index k on
RECURSIVE LoopElements(_, _, _)
LoopElements(ps, k, space) ==
    IF k >= Len(ps) THEN <<>>
    ELSE SectionElements(Part(ps, k), BodyPart(ps, k), space)
         \o LoopElements(ps, k + IndexStep, space)

\* the elements create_pdf_reportlab builds for a content
ElementsFor(s, space) == LoopElements(SplitSections(s), FirstIndex, space)

Next ==
    \/ RaiseMissingFont
    \/ RegisterFont
    \/ SplitContent
    \/ ProcessSection
    \/ BuildDocument

Spec == Init /\ [][Next]_vars

----------------------------------------------------------------------------
(* process_inline_formatting, step by step                                 *)

IdlePdf ==
    /\ content = <<>>
    /\ font_exists = TRUE
    /\ heading_to_content_space = 24
    /\ pc = "idle"
    /\ parts = <<>>
    /\ i = 0
    /\ elements = <<>>
    /\ pdf_data = <<>>

InitEmph ==
    /\ IdlePdf
    /\ given \in Texts(EmphAtoms, MaxEmph)
    /\ text = given
    /\ ipc = "bold"

InitLink ==
    /\ IdlePdf
    /\ given \in LinkTexts
    /\ text = given
    /\ ipc = "bold"

BoldStep ==
    /\ ipc = "bold"
    /\ text' = ConvertBold(text)
    /\ ipc' = "italic"
    /\ UNCHANGED <<given, pdfvars>>

ItalicStep ==
    /\ ipc = "italic"
    /\ text' = ConvertItalic(text)
    /\ ipc' = "link"
    /\ UNCHANGED <<given, pdfvars>>

LinkStep ==
    /\ ipc = "link"
    /\ text' = ConvertLink(text)
    /\ ipc' = "done"
    /\ UNCHANGED <<given, pdfvars>>

NextInline ==
    \/ BoldStep
    \/ ItalicStep
    \/ LinkStep

SpecEmph == InitEmph /\ [][NextInline]_vars

SpecLink == InitLink /\ [][NextInline]_vars


----------------------------------------------------------------------------
(* Reading the input and the output, for the properties below              *)

\* the lines of s, separated by line breaks, empty lines kept
RECURSIVE LinesOf(_)
LinesOf(s) ==
    LET nls == {k \in 1..Len(s) : s[k] = NL}
    IN  IF nls = {} THEN <<s>>
        ELSE <<Sub(s, 1, Min(nls) - 1)>> \o LinesOf(Sub(s, Min(nls) + 1, Len(s)))

Blank(s) == Strip(s) = <<>>

\* s without its leading whitespace
LeftTrimmed(s) ==
    LET keep == {k \in 1..Len(s) : s[k] \notin Whitespace}
    IN  IF keep = {} THEN <<>> ELSE SubSeq(s, Min(keep), Len(s))

\* s without any '#'
RECURSIVE WithoutHashes(_)
WithoutHashes(s) ==
    IF s = <<>> THEN <<>>
    ELSE (IF s[1] = "#" THEN <<>> ELSE <<s[1]>>) \o WithoutHashes(Tail(s))

\* positions of the heading blocks in a sequence of flowables
HeadingPositions(es) == {k \in 1..Len(es) : es[k].style = "Heading"}

Returned == pc = "done"

----------------------------------------------------------------------------
(* C1 *)

\* a heading line as the claim words it: after its leading whitespace the
\* line begins with two or more '#' and heading text follows them
MarkedLine(line) ==
    LET l == LeftTrimmed(line)
    IN  At(l, 1, <<"#", "#">>) /\ ~Blank(LStripHash(l))

MarkedLines(s) == {k \in 1..Len(LinesOf(s)) : MarkedLine(LinesOf(s)[k])}

RECURSIVE SectionsFromLine(_, _)
SectionsFromLine(ls, k) ==
    IF k > Len(ls) THEN 0
    ELSE IF ~At(ls[k], 1, <<"#", "#">>) THEN SectionsFromLine(ls, k + 1)
    ELSE IF ~Blank(Sub(ls[k], 3, Len(ls[k]))) THEN 1 + SectionsFromLine(ls, k + 1)
    ELSE LET later == {m \in (k + 1)..Len(ls) : ~Blank(ls[m])}
         IN  IF later # {} THEN 1 + SectionsFromLine(ls, Min(later) + 1)
             ELSE IF Len(ls[k]) > 2 \/ \E m \in (k + 1)..Len(ls) : ls[m] # <<>>
                  THEN 1
                  ELSE 0

----------------------------------------------------------------------------
(* C2 *)

\* the content is a heading line "## H", a line break and a body, with H not
\* blank
HeadingThenBody(s) ==
    /\ At(s, 1, <<"#", "#", " ">>)
    /\ \E k \in 1..Len(s) : s[k] = NL
    /\ ~Blank(LinesOf(s)[1])
    /\ ~Blank(Sub(LinesOf(s)[1], 4, Len(LinesOf(s)[1])))

\* H of "## H"
HeadingH(s) == Sub(LinesOf(s)[1], 4, Len(LinesOf(s)[1]))

\* C2 as stated: for a content "## H", line break, body, the text of the first
\* heading block is H with the '#' characters and the surrounding whitespace
\* removed (all of them, or at least the leading ones).
C2_HeadingTextWithoutHashes ==
    (Returned /\ HeadingThenBody(content)) =>
        /\ elements # <<>>
        /\ elements[1].text \in
               { process_inline_formatting(Strip(WithoutHashes(HeadingH(content)))),
                 process_inline_formatting(Strip(LStripHash(Strip(HeadingH(content))))) }

\* C2 as amended: for a content "## H", line break, body, with H not blank, the
\* text of the first heading block is H with its surrounding whitespace removed
\* and its inline markup resolved; the '#' characters of H stay.
C2_HeadingTextIsTrimmedH ==
    (Returned /\ HeadingThenBody(content)) =>
        /\ elements # <<>>
        /\ elements[1].style = "Heading"
        /\ elements[1].text = process_inline_formatting(Strip(HeadingH(content)))

C2_Witness ==
    /\ Returned
    /\ HeadingThenBody(content)
    /\ \E k \in 1..Len(HeadingH(content)) : HeadingH(content)[k] = "#"
    /\ elements[1].text = Strip(HeadingH(content))

----------------------------------------------------------------------------
(* C3 *)

\* the content from its first heading on
FromFirstHeading(s) ==
    Sub(s, Len(SplitSections(s)[1]) + 1, Len(s))

\* C3: when the content has a heading, the returned elements are those built
\* for the content with everything before its first heading removed.
C3_LeadingTextDiscarded ==
    (Returned /\ Len(parts) > 1) =>
        elements = ElementsFor(FromFirstHeading(content), heading_to_content_space)

C3_Witness ==
    /\ Returned
    /\ Len(parts) > 1
    /\ ~Blank(parts[1])
    /\ FromFirstHeading(content) # content

----------------------------------------------------------------------------
(* C10 *)

\* C10 as stated: every heading is taken from one line only, so no part that
\* re.split returns as a heading holds a line break, and the text after the
\* heading's line is the section's body.
C10_HeadingFromOwnLineOnly ==
    pc \in {"loop", "done"} =>
        \A k \in 1..Len(parts) :
            (k % 2 = 0) => \A j \in 1..Len(parts[k]) : parts[k][j] # NL


----------------------------------------------------------------------------
(* C4 *)

\* the content has exactly one section: elements is its heading, the spacer,
\* its body block if there is one (then the third element), and the closing gap
OneSection == Returned /\ Len(parts) = 3

\* the first line of a body that is not blank, <<>> when there is none
FirstNonBlankLine(body) ==
    LET ls == LinesOf(body)
        nonblank == {k \in 1..Len(ls) : ~Blank(ls[k])}
    IN  IF nonblank = {} THEN <<>> ELSE ls[Min(nonblank)]

\* C4 as stated: the body of a section is a bullet list exactly when its first
\* non-blank line begins (after its indentation) with alphanumerics, '.' and
\* whitespace, or with '-' and whitespace.
C4_FirstLineDecides ==
    OneSection =>
        ((elements[3].kind = "ListFlowable")
            <=> (MarkerLen(LeftTrimmed(FirstNonBlankLine(parts[3]))) > 0))

----------------------------------------------------------------------------
(* C5 *)

\* the items the claim describes: one per non-blank line, the marker stripped
\* from the line and the inline markup of the line then resolved
RECURSIVE MarkerStrippedItems(_)
MarkerStrippedItems(ls) ==
    IF ls = <<>> THEN <<>>
    ELSE (IF Blank(ls[1]) THEN <<>>
          ELSE <<Paragraph(process_inline_formatting(
                               Strip(StripMarker(LeftTrimmed(ls[1])))), "Bullet")>>)
         \o MarkerStrippedItems(Tail(ls))

\* C5 as stated: a bullet list has one item per non-blank line of the body, in
\* order, each the line with its marker stripped and then its spans resolved.
C5_OneItemPerLine ==
    (OneSection /\ elements[3].kind = "ListFlowable") =>
        elements[3].items = MarkerStrippedItems(LinesOf(parts[3]))

----------------------------------------------------------------------------
(* C6 *)

\* sections the loop has been through
SectionsDone == (i - 1) \div 2

\* position in es of the k-th heading block
HeadingPosition(es, k) ==
    CHOOSE p \in HeadingPositions(es) :
        Cardinality({q \in HeadingPositions(es) : q < p}) = k - 1

\* C6: at every point of the loop and on return, elements is, section by
\* section in the order of the headings in the content: the heading block, a
\* spacer of heading_to_content_space, the body block unless the body is
\* empty, and a spacer of 12; the document built is that sequence.
C6_SectionsInSourceOrder ==
    pc \in {"loop", "done"} =>
        /\ Cardinality(HeadingPositions(elements)) = SectionsDone
        /\ (SectionsDone = 0 => elements = <<>>)
        /\ \A k \in 1..SectionsDone :
              LET p == HeadingPosition(elements, k)
                  q == IF k < SectionsDone THEN HeadingPosition(elements, k + 1)
                                           ELSE Len(elements) + 1
                  body == parts[2 * k + 1]
              IN  /\ (k = 1 => p = 1)
                  /\ elements[p] = Paragraph(process_inline_formatting(
                                                 HeadingText(parts[2 * k])), "Heading")
                  /\ elements[p + 1] = Spacer(heading_to_content_space)
                  /\ elements[q - 1] = Spacer(SectionGap)
                  /\ IF Blank(body) THEN q = p + 3
                     ELSE /\ q = p + 4
                          /\ \/ elements[p + 2].kind = "ListFlowable"
                             \/ elements[p + 2] = Paragraph(process_inline_formatting(
                                                                Strip(body)), "Body")
        /\ (Returned => /\ pdf_data = <<elements>>
                        /\ 2 * SectionsDone + 1 = Len(parts))

\* two sections, the first with a body paragraph, the second with no body
C6_Witness ==
    /\ Returned
    /\ SectionsDone = 2
    /\ Len(elements) = 7
    /\ elements[3].style = "Body"

----------------------------------------------------------------------------
(* C7 *)

\* C7: with the font file missing the call never gets past the check: nothing
\* is split, no element is made and no document is returned.
C7_MissingFontFails ==
    ~font_exists =>
        /\ pc \in {"start", "raised"}
        /\ parts = <<>>
        /\ elements = <<>>
        /\ pdf_data = <<>>

\* the error is raised for a content that has sections
C7_Witness ==
    /\ pc = "raised"
    /\ ~font_exists
    /\ Len(SplitSections(content)) > 1
    /\ pdf_data = <<>>

----------------------------------------------------------------------------
(* C8 *)

\* given is "**" X "**" with X not empty and free of '*' and line breaks
BoldAroundPlain ==
    /\ Len(given) >= 5
    /\ At(given, 1, <<"*", "*">>)
    /\ At(given, Len(given) - 1, <<"*", "*">>)
    /\ \A k \in 3..(Len(given) - 2) : given[k] \notin {"*", NL}

\* "**a*a*a**"
BoldAroundItalic == <<"*", "*", "a", "*", "a", "*", "a", "*", "*">>

\* C8: "**X**" with plain X becomes one bold span around X, and no '*' is left
\* for the italic substitution; in "**a*a*a**" the outer pair is made bold
\* first and the inner "*a*" italic afterwards, inside the bold span.
C8_BoldBeforeItalic ==
    /\ (BoldAroundPlain /\ ipc \in {"italic", "link", "done"}) =>
           text = <<BOpen>> \o Sub(given, 3, Len(given) - 2) \o <<BClose>>
    /\ (given = BoldAroundItalic /\ ipc = "italic") =>
           text = <<BOpen, "a", "*", "a", "*", "a", BClose>>
    /\ (given = BoldAroundItalic /\ ipc \in {"link", "done"}) =>
           text = <<BOpen, "a", IOpen, "a", IClose, "a", BClose>>

C8_Witness ==
    /\ ipc = "done"
    /\ given = BoldAroundItalic
    /\ text = <<BOpen, "a", IOpen, "a", IClose, "a", BClose>>

----------------------------------------------------------------------------
(* C9 *)

\* TEXT and URL of a given "[TEXT](URL)" whose TEXT has no ']'
GivenLinkText ==
    Sub(given, 2, Min({k \in 1..Len(given) : given[k] = "]"}) - 1)

GivenUrl ==
    Sub(given, Min({k \in 1..Len(given) : given[k] = "]"}) + 2, Len(given) - 1)

StartsWithScheme(u) ==
    \/ At(u, 1, <<"h", "t", "t", "p", ":", "/", "/">>)
    \/ At(u, 1, <<"h", "t", "t", "p", "s", ":", "/", "/">>)

\* something follows the scheme
SchemeAndMore(u) ==
    \/ At(u, 1, <<"h", "t", "t", "p", ":", "/", "/">>) /\ Len(u) > 7
    \/ At(u, 1, <<"h", "t", "t", "p", "s", ":", "/", "/">>) /\ Len(u) > 8

\* the hyperlink span for the given TEXT and URL
GivenAsLink == <<AOpen>> \o GivenUrl \o <<AMid>> \o GivenLinkText \o <<AClose>>

\* C9 as stated: "[TEXT](URL)", TEXT not empty, becomes a hyperlink span exactly
\* when URL starts with "http://" or "https://", and is returned unchanged
\* otherwise.
C9_LinkIffScheme ==
    (ipc = "done" /\ GivenLinkText # <<>>) =>
        IF StartsWithScheme(GivenUrl) THEN text = GivenAsLink ELSE text = given

\* C9 as amended: "[TEXT](URL)" becomes a hyperlink span exactly when TEXT is
\* not empty and URL starts with "http://" or "https://" followed by at least
\* one more character, and is returned unchanged otherwise.
C9_LinkIffSchemeAndMore ==
    ipc = "done" =>
        IF GivenLinkText # <<>> /\ SchemeAndMore(GivenUrl)
        THEN text = GivenAsLink
        ELSE text = given

\* a URL that is the scheme and nothing more is left as it was given
C9_Witness ==
    /\ ipc = "done"
    /\ GivenLinkText # <<>>
    /\ GivenUrl = <<"h", "t", "t", "p", ":", "/", "/">>
    /\ text = given


----------------------------------------------------------------------------
(* C11 *)

OpenTags == {BOpen, IOpen, AOpen}

\* the tag that opens the span a closing tag closes
OpenerOf(c) == IF c = BClose THEN BOpen ELSE IF c = IClose THEN IOpen ELSE AOpen

\* the tags of s are properly matched: every closing tag closes the span
\* opened last and still open (open holds the open spans, innermost first),
\* and no span is left open at the end
RECURSIVE ProperlyNested(_, _)
ProperlyNested(s, open) ==
    IF s = <<>> THEN open = <<>>
    ELSE IF s[1] \in OpenTags THEN ProperlyNested(Tail(s), <<s[1]>> \o open)
    ELSE IF s[1] \in {BClose, IClose, AClose}
         THEN /\ open # <<>>
              /\ open[1] = OpenerOf(s[1])
              /\ ProperlyNested(Tail(s), Tail(open))
         ELSE ProperlyNested(Tail(s), open)

\* C11 as stated: in the text process_inline_formatting returns, the bold,
\* italic and link tags are properly matched and never interleave: no span is
\* opened inside another span and closed outside it.
C11_SpansNeverInterleave ==
    ipc = "done" => ProperlyNested(text, <<>>)


====
